---- MODULE Spec2Model ----
(***************************************************************************)
(* Cross-chain query aggregator of the LayerZero explorer (server/lzread):  *)
(* the request ledger (requestHistory), the query dispatcher                *)
(* (performCrossChainQuery), the wallet vacuum (performWalletVacuum) and    *)
(* the chain data resolver (fetchChainData); and the deployment metadata    *)
(* of the same server: the metadata cache (fetchLayerZeroDeployments), the  *)
(* deployments table (DatabaseStorage) and the periodic sync                *)
(* (syncDeploymentsData).                                                   *)
(*                                                                          *)
(* One action is one run-to-completion turn of the single-threaded event    *)
(* loop: a handler runs from its start, or from the I/O completion that     *)
(* resumes it, through every microtask it triggers (promise continuations   *)
(* included) up to the next outstanding network call.                       *)
(***************************************************************************)
EXTENDS Integers, Sequences, FiniteSets, TLC

\* ------------------------------------------------------------------ bounds
MaxRequests == 2    \* concurrent dispatches per run
MaxChains == 2      \* length of a query's chain list
MaxTime == 2        \* values Date.now() takes

\* ------------------------------------------------------- values and inputs
Unset == [unset |-> TRUE]          \* an absent optional field (undefined)
NullResult == [null |-> TRUE]      \* the null a skipped chain resolves to
NullData == [nodata |-> TRUE]      \* a JSON-RPC reply without a result
Raised == [raised |-> TRUE]        \* a rejected promise

\* A hex quantity string; its value is hi * 10^9 + lo.
Hex(hi, lo) == [hex |-> <<hi, lo>>]
ZeroHex == Hex(0, 0)               \* the string "0x0"

\* chainKey -> eid, for the modelled part of chainConfigMap.
chainConfigMap == [ethereum |-> "30001", polygon |-> "30109"]
ConfiguredChains == DOMAIN chainConfigMap
ChainKeys == ConfiguredChains \cup {"doesnotexist"}

ChainListsOf(keys) == UNION {[1..n -> keys] : n \in 1..MaxChains}
ChainLists == ChainListsOf(ChainKeys)
QueryTypes == {"balance", "transactions"}
Addresses == {"0xabc"}
Queries == [address : Addresses, queryType : QueryTypes, chains : ChainLists]

\* What the primary JSON-RPC call can come back with.
PrimaryOutcomes ==
    {[kind |-> "ok", result |-> r] : r \in {ZeroHex, Hex(100000000, 0), NullData}}
    \cup {[kind |-> k] : k \in {"http", "rpc", "network", "timeout", "badjson"}}

\* What the block-header call can come back with.
HeaderOutcomes ==
    {[kind |-> "ok", number |-> 7, timestamp |-> 2], [kind |-> "noresult"]}
    \cup {[kind |-> k] : k \in {"network", "timeout", "badjson"}}

\* error.message of what the failed call threw.
ErrorMessage(kind) ==
    CASE kind = "http" -> "HTTP error! status: 500"
      [] kind = "rpc" -> "RPC error: {}"
      [] kind = "network" -> "fetch failed"
      [] kind = "timeout" -> "This operation was aborted"
      [] kind = "badjson" -> "Unexpected token < in JSON"
      [] OTHER -> "Unknown error"

VARIABLES
    requestHistory,   \* the ledger: sequence of LzReadRequest
    calls,            \* calls[id]: the dispatch that created request id
    now,              \* Date.now()
    cachedDeployments,\* the metadata cache of server/layerzero
    deployments,      \* the rows of the deployments table
    fetches,          \* metadata GETs in flight
    returned,         \* what fetchLayerZeroDeployments returned last
    runs,             \* syncDeploymentsData invocations in flight
    timers,           \* pending setTimeout(syncDeploymentsData, ...) callbacks
    selected          \* what getDeployments returned last

\* The state of the deployment metadata.
syncVars == <<cachedDeployments, deployments, fetches, returned, runs, timers,
              selected>>

vars == <<requestHistory, calls, now, cachedDeployments, deployments, fetches,
          returned, runs, timers, selected>>

\* ---------------------------------------------------------- sequence helpers
RECURSIVE SelectSeqBy(_, _)
\* Array.prototype.filter, with the predicate as a set of kept values' indices.
SelectSeqBy(s, keep) ==
    IF s = <<>> THEN <<>>
    ELSE LET rest == SelectSeqBy(Tail(s), {i - 1 : i \in keep \ {1}})
         IN IF 1 \in keep THEN <<Head(s)>> \o rest ELSE rest

Min(a, b) == IF a < b THEN a ELSE b

Prefix(s, n) == SubSeq(s, 1, IF n < Len(s) THEN n ELSE Len(s))

RECURSIVE InsertDesc_Unstable(_, _)
\* An unstable sort: r goes before the elements of equal timestamp.
InsertDesc_Unstable(sorted, r) ==
    IF sorted = <<>> THEN <<r>>
    ELSE IF Head(sorted).timestamp > r.timestamp
         THEN <<Head(sorted)>> \o InsertDesc_Unstable(Tail(sorted), r)
         ELSE <<r>> \o sorted

RECURSIVE InsertDesc(_, _)
\* Insert r after every element whose timestamp is >= r's (stable, descending).
InsertDesc(sorted, r) ==
    IF sorted = <<>> THEN <<r>>
    ELSE IF Head(sorted).timestamp >= r.timestamp
         THEN <<Head(sorted)>> \o InsertDesc(Tail(sorted), r)
         ELSE <<r>> \o sorted

RECURSIVE SortDesc(_)
\* Array.prototype.sort((a, b) => b.timestamp - a.timestamp): stable.
SortDesc(s) ==
    IF s = <<>> THEN <<>>
    ELSE InsertDesc(SortDesc(SubSeq(s, 1, Len(s) - 1)), s[Len(s)])

\* ------------------------------------------------------------ fetchChainData
\* The catch block stamping the resolver's local timestamp, still 0.
ErrorResult_LocalTimestamp(chainKey, eid, message, t) ==
    [chainKey |-> chainKey, eid |-> eid, blockNumber |-> 0, timestamp |-> 0,
     data |-> [error |-> message]]

\* The catch block: the error ChainData of a failed resolution.
ErrorResult(chainKey, eid, message, t) ==
    [chainKey |-> chainKey, eid |-> eid, blockNumber |-> 0, timestamp |-> t,
     data |-> [error |-> message]]

\* Number.prototype.toString(16)
HexDigits == <<"0", "1", "2", "3", "4", "5", "6", "7",
               "8", "9", "a", "b", "c", "d", "e", "f">>
RECURSIVE ToString16(_)
ToString16(n) ==
    IF n < 16 THEN HexDigits[n + 1]
    ELSE ToString16(n \div 16) \o HexDigits[(n % 16) + 1]

\* query.blockNumber ? `0x${query.blockNumber.toString(16)}` : 'latest'
\* (blockNumber is an optional field; undefined and 0 are both falsy).
BlockTag(query) ==
    IF "blockNumber" \notin DOMAIN query THEN "latest"
    ELSE IF query.blockNumber = 0 THEN "latest"
    ELSE "0x" \o ToString16(query.blockNumber)

\* The JSON-RPC request of the primary call, by query type.
PrimaryRequest(query) ==
    IF query.queryType = "transactions"
    THEN [method |-> "eth_getBlockByNumber", params |-> <<BlockTag(query), TRUE>>]
    ELSE [method |-> "eth_getBalance", params |-> <<query.address, BlockTag(query)>>]

\* The JSON-RPC request of the block-header call.
HeaderRequest(query) ==
    [method |-> "eth_getBlockByNumber", params |-> <<BlockTag(query), FALSE>>]

\* String.prototype.toLowerCase on the addresses of the model.
toLowerCase(str) == IF str = "0xABC" THEN "0xabc" ELSE str

\* A comparison of the addresses as they are written.
IsRelated_CaseSensitive(tx, address) ==
    \/ "from" \in DOMAIN tx /\ tx.from = address
    \/ "to" \in DOMAIN tx /\ tx.to = address

\* tx.from?.toLowerCase() === query.address.toLowerCase() ||
\* tx.to?.toLowerCase() === query.address.toLowerCase()
IsRelated(tx, address) ==
    \/ "from" \in DOMAIN tx /\ toLowerCase(tx.from) = toLowerCase(address)
    \/ "to" \in DOMAIN tx /\ toLowerCase(tx.to) = toLowerCase(address)

\* What the primary reply's result is kept as: for a transactions query on a
\* block with a transaction array, the related transactions and the block's
\* number and timestamp; the result itself otherwise.
PrimaryData(query, result) ==
    IF query.queryType = "transactions" /\ "transactions" \in DOMAIN result
    THEN [transactions |->
            SelectSeqBy(result.transactions,
                        {k \in 1..Len(result.transactions) :
                            IsRelated(result.transactions[k], query.address)}),
          blockNumber |-> result.number, timestamp |-> result.timestamp]
    ELSE result

\* The synchronous start of fetchChainData: method and params are chosen, the
\* abort timer is armed and the primary call is issued. query is the query the
\* resolver was called with, sent the requests it has issued, data the local
\* the primary reply is kept in, result what fetchChainData returns, value
\* what the caller's per-chain promise settles to.
FetchStart(chainKey, eid, query) ==
    [chainKey |-> chainKey, eid |-> eid, pc |-> "primary", data |-> Unset,
     result |-> Unset, value |-> Unset, query |-> query,
     sent |-> <<PrimaryRequest(query)>>, timer |-> "armed"]

\* Leaving the inner try block with clearTimeout only after the block-header
\* reply was parsed, not in a finally block.
Finally_SuccessOnly(task, o) ==
    [task EXCEPT !.timer = IF o.kind = "timeout" THEN "fired"
                           ELSE IF o.kind \in {"ok", "noresult"} THEN "cleared"
                           ELSE @]

\* Leaving the inner try block with outcome o: the timer has fired when the
\* outcome is the abort, and the finally block clears it in every case.
Finally(task, o) ==
    [task EXCEPT !.timer = IF o.kind = "timeout" THEN "fired" ELSE "cleared"]

\* The primary reply was ok and without error field: its result is kept and
\* the block-header call is issued.
PrimaryOk(task, result) ==
    [task EXCEPT !.pc = "header", !.data = PrimaryData(task.query, result),
                 !.sent = Append(@, HeaderRequest(task.query))]

\* The primary call with an abort that is thrown on instead of being caught.
OnPrimary_Rethrow(task, o, t) ==
    IF o.kind = "ok"
    THEN PrimaryOk(task, o.result)
    ELSE IF o.kind = "timeout"
    THEN [Finally(task, o) EXCEPT !.pc = "settled", !.result = Raised]
    ELSE [Finally(task, o) EXCEPT !.pc = "settled",
            !.result = [chainKey |-> task.chainKey, eid |-> task.eid,
                        blockNumber |-> 0, timestamp |-> t,
                        data |-> [error |-> ErrorMessage(o.kind)]]]

\* The primary call without the abort signal: a call that gets no reply is
\* never settled.
OnPrimary_NoAbort(task, o, t) ==
    IF o.kind = "ok"
    THEN PrimaryOk(task, o.result)
    ELSE IF o.kind = "timeout"
    THEN [task EXCEPT !.pc = "hung"]
    ELSE [Finally(task, o) EXCEPT !.pc = "settled",
            !.result = [chainKey |-> task.chainKey, eid |-> task.eid,
                        blockNumber |-> 0, timestamp |-> t,
                        data |-> [error |-> ErrorMessage(o.kind)]]]

\* The primary call without the check of response.ok: the body of an HTTP
\* error reply is parsed like any other and has no result.
OnPrimary_IgnoreStatus(task, o, t) ==
    IF o.kind = "ok"
    THEN PrimaryOk(task, o.result)
    ELSE IF o.kind = "http"
    THEN PrimaryOk(task, NullData)
    ELSE [Finally(task, o) EXCEPT !.pc = "settled",
            !.result = [chainKey |-> task.chainKey, eid |-> task.eid,
                        blockNumber |-> 0, timestamp |-> t,
                        data |-> [error |-> ErrorMessage(o.kind)]]]

\* The primary call came back with outcome o at time t: on a reply that is ok
\* and carries no error field the block-header call is issued, anything else
\* is thrown into the catch block.
OnPrimary(task, o, t) ==
    IF o.kind = "ok"
    THEN PrimaryOk(task, o.result)
    ELSE [Finally(task, o) EXCEPT !.pc = "settled",
            !.result = ErrorResult(task.chainKey, task.eid, ErrorMessage(o.kind), t)]

\* The block-header call came back with outcome o at time t: a parsed reply
\* gives the block number and timestamp (0 when it has no result), a failed
\* fetch or an unparseable body is thrown into the catch block.
OnHeader(task, o, t) ==
    CASE o.kind = "ok" ->
           [Finally(task, o) EXCEPT !.pc = "settled",
              !.result = [chainKey |-> task.chainKey, eid |-> task.eid,
                          blockNumber |-> o.number, timestamp |-> o.timestamp,
                          data |-> task.data]]
      [] o.kind = "noresult" ->
           [Finally(task, o) EXCEPT !.pc = "settled",
              !.result = [chainKey |-> task.chainKey, eid |-> task.eid,
                          blockNumber |-> 0, timestamp |-> 0, data |-> task.data]]
      [] OTHER ->
           [Finally(task, o) EXCEPT !.pc = "settled",
              !.result = ErrorResult(task.chainKey, task.eid, ErrorMessage(o.kind), t)]

\* ------------------------------------------------------------- formatBalance
RECURSIVE Pow10(_)
\* Math.pow(10, n)
Pow10(n) == IF n = 0 THEN 1 ELSE 10 * Pow10(n - 1)

\* A string formatBalance returns as it is.
Text(str) == [text |-> str]

\* formatBalance without the branch for small positive balances.
formatBalance_NoThreshold(hexBalance, decimals) ==
    IF hexBalance = NullData \/ hexBalance = ZeroHex THEN Text("0")
    ELSE IF "hex" \notin DOMAIN hexBalance THEN Text("NaN")
    ELSE LET hi == hexBalance.hex[1]
             unit == Pow10(decimals - 13)
         IN [tenThousandths |-> (hi + (unit \div 2)) \div unit]

\* formatBalance(hexBalance, decimals) for decimals in 14..19; the number
\* toLocaleString renders is kept as a count of ten-thousandths. parseInt of
\* what is no hex string is NaN, which nothing throws on and toLocaleString
\* renders as "NaN".
formatBalance(hexBalance, decimals) ==
    IF hexBalance = NullData \/ hexBalance = ZeroHex THEN Text("0")
    ELSE IF "hex" \notin DOMAIN hexBalance THEN Text("NaN")
    ELSE LET hi == hexBalance.hex[1]
             unit == Pow10(decimals - 13)
         IN IF hi < unit THEN Text("< 0.0001")
            ELSE [tenThousandths |-> (hi + (unit \div 2)) \div unit]

\* ------------------------------------------------------- per-chain promises
\* A per-chain promise that is resolved with null without a network call.
Skipped(chainKey) ==
    [chainKey |-> chainKey, eid |-> "none", pc |-> "settled", data |-> Unset,
     result |-> Unset, value |-> NullResult, query |-> Unset, sent |-> <<>>,
     timer |-> "none"]

\* executeLzReadCliCommand up to its first suspension.
executeLzReadCliCommand(chainKey, query) ==
    IF chainKey \notin ConfiguredChains THEN Skipped(chainKey)
    ELSE FetchStart(chainKey, chainConfigMap[chainKey], query)

\* executeLzReadCliCommand returns fetchChainData's promise as it is.
cliResult(task) ==
    IF task.pc # "settled" THEN task ELSE [task EXCEPT !.value = task.result]

\* A closure that reports an unconfigured chain as an asset entry carrying an
\* error instead of skipping it.
assetPromiseStart_ErrorEntry(chainKey, address) ==
    IF chainKey \notin ConfiguredChains
    THEN [Skipped(chainKey) EXCEPT
            !.value = [chain |-> chainKey, eid |-> "none", assetType |-> "native",
                       balance |-> [error |-> "Chain not configured"],
                       balanceFormatted |-> Text("NaN"), decimals |-> 18,
                       blockNumber |-> 0, lastUpdated |-> 0]]
    ELSE FetchStart(chainKey, chainConfigMap[chainKey],
                    [address |-> address, queryType |-> "balance",
                     chains |-> <<chainKey>>])

\* The wallet vacuum's per-chain closure up to its first suspension.
\* The balance query it builds for the chain has no block number.
assetPromiseStart(chainKey, address) ==
    IF chainKey \notin ConfiguredChains THEN Skipped(chainKey)
    ELSE FetchStart(chainKey, chainConfigMap[chainKey],
                    [address |-> address, queryType |-> "balance",
                     chains |-> <<chainKey>>])

\* nativeData.data || '0x0'
OrZeroHex(data) == IF data = NullData THEN ZeroHex ELSE data

\* The wallet vacuum's per-chain closure after fetchChainData settled: the
\* AssetData of the chain, null when the closure's own catch block ran.
nativeAsset(task) ==
    IF task.pc # "settled" THEN task
    ELSE IF task.result = Raised THEN [task EXCEPT !.value = NullResult]
    ELSE [task EXCEPT !.value =
            [chain |-> task.chainKey, eid |-> chainConfigMap[task.chainKey],
             assetType |-> "native", balance |-> OrZeroHex(task.result.data),
             balanceFormatted |-> formatBalance(OrZeroHex(task.result.data), 18),
             decimals |-> 18, blockNumber |-> task.result.blockNumber,
             lastUpdated |-> task.result.timestamp]]

\* The per-chain promise of a dispatch of the given kind after its resolver moved.
PerChain(kind, task) ==
    IF kind = "wallet_vacuum" THEN nativeAsset(task) ELSE cliResult(task)

\* ---------------------------------------------------------------- the ledger
\* The record a dispatch creates (status pending, no resolved field yet).
NewRequest(id, chains, requestType, t) ==
    [id |-> id, sourceChain |-> "explorer", targetChains |-> chains,
     requestType |-> requestType, status |-> "pending", timestamp |-> t,
     result |-> Unset, walletScan |-> Unset]

\* A lookup by the position the record was appended at.
FindIndex_ByPosition(history, id) == IF id \in 1..Len(history) THEN id ELSE 0

\* requestHistory.find(req => req.id === id): the position, 0 when absent.
FindIndex(history, id) ==
    IF \E i \in 1..Len(history) : history[i].id = id
    THEN CHOOSE i \in 1..Len(history) :
            /\ history[i].id = id
            /\ \A j \in 1..(i - 1) : history[j].id # id
    ELSE 0

getRequestById(history, id) ==
    LET k == FindIndex(history, id) IN IF k = 0 THEN Unset ELSE history[k]

\* getRecentRequests(limit = 10)
DefaultLimit == 10

\* The ledger after sort().splice(0, limit) instead of slice: the records
\* returned are taken out of it.
SortedHistory_Splice(history) ==
    SubSeq(SortDesc(history), Min(DefaultLimit, Len(history)) + 1, Len(history))

\* The ledger as getRecentRequests leaves it: sort() sorts the array in place.
SortedHistory(history) == SortDesc(history)

\* What getRecentRequests(limit) returns.
getRecentRequests(history, limit) == Prefix(SortedHistory(history), limit)

\* ------------------------------------------------------------ the join (await)
Settled(call) == {i \in 1..Len(call.tasks) : call.tasks[i].pc = "settled"}

\* A join that is fulfilled by the first per-chain promise (Promise.any).
JoinFulfilled_Any(call) ==
    /\ Settled(call) # {}
    /\ \A i \in 1..Len(call.tasks) : call.tasks[i].value # Raised

\* Promise.all is fulfilled: every per-chain promise is fulfilled.
JoinFulfilled(call) ==
    /\ Settled(call) = 1..Len(call.tasks)
    /\ \A i \in 1..Len(call.tasks) : call.tasks[i].value # Raised

\* Promise.all is rejected: some per-chain promise is rejected.
JoinRejected(call) ==
    \E i \in Settled(call) : call.tasks[i].value = Raised

\* The values collected as the promises settle, skipped chains first.
JoinValues_CompletionOrder(call) ==
    LET skipped == SelectSeqBy([i \in 1..Len(call.tasks) |-> i],
                               {i \in Settled(call) : \A k \in 1..Len(call.order) :
                                                          call.order[k] # i})
        done == skipped \o call.order
    IN [k \in 1..Len(done) |-> call.tasks[done[k]].value]

\* The values Promise.all resolves to, in input order.
JoinValues(call) == [i \in 1..Len(call.tasks) |-> call.tasks[i].value]

\* cliResults.filter(r => r !== null)
validResults(cliResults) ==
    SelectSeqBy(cliResults, {i \in 1..Len(cliResults) : cliResults[i] # NullResult})

\* new Set(assets.filter(a => a.balance !== '0x0' && a.balance !== '0')
\*            .map(a => a.chain)).size
chainsWithAssets(assets) ==
    Cardinality({assets[i].chain : i \in {j \in 1..Len(assets) : assets[j].balance # ZeroHex}})

\* A wallet vacuum that also fills in result, as the query dispatcher does.
Completed_ScanInResult(request, call, t) ==
    [request EXCEPT
       !.status = "completed",
       !.walletScan = IF call.kind = "wallet_vacuum"
                      THEN [address |-> call.address,
                            totalChains |-> Len(call.chains),
                            chainsWithAssets |-> chainsWithAssets(validResults(JoinValues(call))),
                            assets |-> validResults(JoinValues(call)),
                            timestamp |-> t]
                      ELSE @,
       !.result = [address |-> call.address, queryType |-> call.queryType,
                   results |-> validResults(JoinValues(call)),
                   timestamp |-> t]]

\* A wallet vacuum that reports the number of chains it scanned, not the
\* number it was asked for.
Completed_TotalScanned(request, call, t) ==
    IF call.kind = "wallet_vacuum"
    THEN [request EXCEPT
            !.status = "completed",
            !.walletScan = [address |-> call.address,
                            totalChains |-> Len(validResults(JoinValues(call))),
                            chainsWithAssets |-> chainsWithAssets(validResults(JoinValues(call))),
                            assets |-> validResults(JoinValues(call)),
                            timestamp |-> t]]
    ELSE [request EXCEPT
            !.status = "completed",
            !.result = [address |-> call.address, queryType |-> call.queryType,
                        results |-> validResults(JoinValues(call)),
                        timestamp |-> t]]

\* The record of a completed dispatch.
Completed(request, call, t) ==
    IF call.kind = "wallet_vacuum"
    THEN [request EXCEPT
            !.status = "completed",
            !.walletScan = [address |-> call.address,
                            totalChains |-> Len(call.chains),
                            chainsWithAssets |-> chainsWithAssets(validResults(JoinValues(call))),
                            assets |-> validResults(JoinValues(call)),
                            timestamp |-> t]]
    ELSE [request EXCEPT
            !.status = "completed",
            !.result = [address |-> call.address, queryType |-> call.queryType,
                        results |-> validResults(JoinValues(call)),
                        timestamp |-> t]]

\* The record after the catch block of a dispatch.
Failed(request) == [request EXCEPT !.status = "failed"]

\* A dispatcher that marks the record completed as soon as a primary reply
\* is in, and fills in the resolved field when the join settles.
Resume_StatusFirst(history, call, t) ==
    LET k == FindIndex(history, call.id)
    IN IF call.returned \/ k = 0 THEN history
       ELSE IF JoinRejected(call) THEN [history EXCEPT ![k] = Failed(history[k])]
       ELSE IF JoinFulfilled(call) THEN [history EXCEPT ![k] = Completed(history[k], call, t)]
       ELSE IF \E i \in 1..Len(call.tasks) : call.tasks[i].pc = "header"
       THEN [history EXCEPT ![k].status = "completed"]
       ELSE history

\* A resolver whose catch block marks the record of its dispatch failed.
Resume_FailOnError(history, call, t) ==
    LET k == FindIndex(history, call.id)
    IN IF call.returned \/ k = 0 THEN history
       ELSE IF JoinRejected(call) THEN [history EXCEPT ![k] = Failed(history[k])]
       ELSE IF JoinFulfilled(call) THEN [history EXCEPT ![k] = Completed(history[k], call, t)]
       ELSE IF \E i \in Settled(call) :
                  /\ "data" \in DOMAIN call.tasks[i].result
                  /\ "error" \in DOMAIN call.tasks[i].result.data
       THEN [history EXCEPT ![k] = Failed(history[k])]
       ELSE history

\* A dispatcher that writes to the newest record of the ledger instead of the
\* one it created.
Resume_LastRecord(history, call, t) ==
    LET k == Len(history)
    IN IF call.returned \/ k = 0 THEN history
       ELSE IF JoinRejected(call) THEN [history EXCEPT ![k] = Failed(history[k])]
       ELSE IF JoinFulfilled(call) THEN [history EXCEPT ![k] = Completed(history[k], call, t)]
       ELSE history

\* The dispatcher's code after its await, run when the join settles: the record
\* of call.id in the ledger is the object the dispatcher holds.
Resume(history, call, t) ==
    LET k == FindIndex(history, call.id)
    IN IF call.returned \/ k = 0 THEN history
       ELSE IF JoinRejected(call) THEN [history EXCEPT ![k] = Failed(history[k])]
       ELSE IF JoinFulfilled(call) THEN [history EXCEPT ![k] = Completed(history[k], call, t)]
       ELSE history

\* Whether the dispatcher has returned its record once the join settled.
Returns(call) == call.returned \/ JoinRejected(call) \/ JoinFulfilled(call)

\* -------------------------------------------------------------------- actions
\* The limits a reply of getRecentRequests is looked at for.
Limits == {1, DefaultLimit}

\* No cache, no sync started, nothing returned or selected yet.
NoCache == [null |-> TRUE]
NothingYet == [turn |-> 0]

Init ==
    /\ requestHistory = <<>>
    /\ calls = <<>>
    /\ now = 1
    /\ cachedDeployments = NoCache
    /\ deployments = {}
    /\ fetches = <<>>
    /\ returned = NothingYet
    /\ runs = <<>>
    /\ timers = <<>>
    /\ selected = NothingYet

\* A push that is left to the code after the await.
AppendRequest_Deferred(history, request) == history

\* requestHistory.push(request)
AppendRequest(history, request) == Append(history, request)

\* A dispatcher from its entry to its first suspension: the record is pushed,
\* the per-chain promises are started, and when none of them has to wait the
\* join settles in the same turn.
Dispatch(history, call, requestType, t) ==
    Resume(AppendRequest(history, NewRequest(call.id, call.chains, requestType, t)),
           call, t)

\* POST /lzread/query: performCrossChainQuery(query).
DispatchQuery(q) ==
    LET call == [id |-> Len(calls) + 1, kind |-> "query", address |-> q.address,
                 queryType |-> q.queryType, chains |-> q.chains,
                 tasks |-> [i \in 1..Len(q.chains) |->
                              executeLzReadCliCommand(q.chains[i], q)],
                 order |-> <<>>, returned |-> FALSE]
    IN /\ requestHistory' = Dispatch(requestHistory, call, q.queryType, now)
       /\ calls' = Append(calls, [call EXCEPT !.returned = Returns(call)])
       /\ UNCHANGED <<now, syncVars>>

\* POST /lzread/wallet-vacuum: performWalletVacuum(address, chains).
DispatchVacuum(address, chains) ==
    LET call == [id |-> Len(calls) + 1, kind |-> "wallet_vacuum",
                 address |-> address, queryType |-> "balance", chains |-> chains,
                 tasks |-> [i \in 1..Len(chains) |->
                              assetPromiseStart(chains[i], address)],
                 order |-> <<>>, returned |-> FALSE]
    IN /\ requestHistory' = Dispatch(requestHistory, call, "wallet_vacuum", now)
       /\ calls' = Append(calls, [call EXCEPT !.returned = Returns(call)])
       /\ UNCHANGED <<now, syncVars>>

\* A per-chain promise of dispatch id moved to `task`; the dispatcher resumes
\* in the same turn when that settles its join. order lists the promises that
\* waited for the network in the order they settled.
Advance(id, i, task) ==
    LET call == [calls[id] EXCEPT
                   !.tasks[i] = PerChain(calls[id].kind, task),
                   !.order = IF task.pc = "settled" THEN Append(@, i) ELSE @]
    IN /\ requestHistory' = Resume(requestHistory, call, now)
       /\ calls' = [calls EXCEPT ![id] = [call EXCEPT !.returned = Returns(call)]]
       /\ UNCHANGED <<now, syncVars>>

\* The primary RPC call of a resolver comes back, fails or is aborted; the
\* abort is the callback of the resolver's timer and needs it armed.
PrimaryResponse(id, i, o) ==
    /\ id \in 1..Len(calls)
    /\ i \in 1..Len(calls[id].tasks)
    /\ calls[id].tasks[i].pc = "primary"
    /\ o.kind = "timeout" => calls[id].tasks[i].timer = "armed"
    /\ Advance(id, i, OnPrimary(calls[id].tasks[i], o, now))

\* The block-header RPC call of a resolver comes back, fails or is aborted.
HeaderResponse(id, i, o) ==
    /\ id \in 1..Len(calls)
    /\ i \in 1..Len(calls[id].tasks)
    /\ calls[id].tasks[i].pc = "header"
    /\ o.kind = "timeout" => calls[id].tasks[i].timer = "armed"
    /\ Advance(id, i, OnHeader(calls[id].tasks[i], o, now))

\* GET /lzread/recent?limit=N: the reply is getRecentRequests(requestHistory,
\* limit); the sort it runs stays in the ledger.
GetRecentRequests(limit) ==
    /\ requestHistory' = SortedHistory(requestHistory)
    /\ UNCHANGED <<calls, now, syncVars>>

\* GET /lzread/request/:id: the reply is getRequestById(requestHistory, id).
GetRequestById(id) ==
    /\ id \in 1..Len(calls)
    /\ UNCHANGED <<requestHistory, calls, now, syncVars>>

\* The wall clock advances.
Tick ==
    /\ now < MaxTime
    /\ now' = now + 1
    /\ UNCHANGED <<requestHistory, calls, syncVars>>

\* ------------------------------------------------- the ledger under concurrency
\* Inputs of Spec: concurrent dispatches of both kinds, each with at most
\* one configured chain, whose calls succeed or are aborted by the timeout,
\* interleaved with both reads and the clock.
LedgerChainLists == {<<"ethereum">>, <<"doesnotexist">>, <<"doesnotexist", "polygon">>}
LedgerQueries == [address : Addresses, queryType : {"balance"}, chains : LedgerChainLists]
LedgerPrimaryOutcomes ==
    {o \in PrimaryOutcomes : o = [kind |-> "ok", result |-> Hex(100000000, 0)]
                             \/ o.kind = "timeout"}
LedgerHeaderOutcomes == {o \in HeaderOutcomes : o.kind = "ok"}

Next ==
    \/ /\ Len(calls) < MaxRequests
       /\ \E q \in LedgerQueries : DispatchQuery(q)
    \/ /\ Len(calls) < MaxRequests
       /\ \E a \in Addresses, c \in LedgerChainLists : DispatchVacuum(a, c)
    \/ \E id \in 1..MaxRequests, i \in 1..MaxChains, o \in LedgerPrimaryOutcomes :
          PrimaryResponse(id, i, o)
    \/ \E id \in 1..MaxRequests, i \in 1..MaxChains, o \in LedgerHeaderOutcomes :
          HeaderResponse(id, i, o)
    \/ GetRecentRequests(DefaultLimit)
    \/ GetRequestById(Len(calls))
    \/ Tick

Spec == Init /\ [][Next]_vars

\* ---------------------------------------------------- one dispatch, any outcome
\* Inputs of SpecResolver: a single query dispatch over every chain list, and
\* every outcome of its calls.
ResolverQueries == {q \in Queries : q.queryType = "balance"}

NextResolver ==
    \/ /\ Len(calls) < 1
       /\ \E q \in ResolverQueries : DispatchQuery(q)
    \/ \E i \in 1..MaxChains, o \in PrimaryOutcomes : PrimaryResponse(1, i, o)
    \/ \E i \in 1..MaxChains, o \in HeaderOutcomes : HeaderResponse(1, i, o)

SpecResolver == Init /\ [][NextResolver]_vars

\* Inputs of SpecVacuum: a single wallet vacuum over every chain list, and
\* every outcome of its balance calls.
NextVacuum ==
    \/ /\ Len(calls) < 1
       /\ \E a \in Addresses, c \in ChainLists : DispatchVacuum(a, c)
    \/ \E i \in 1..MaxChains, o \in PrimaryOutcomes : PrimaryResponse(1, i, o)
    \/ \E i \in 1..MaxChains, o \in HeaderOutcomes : HeaderResponse(1, i, o)

SpecVacuum == Init /\ [][NextVacuum]_vars

\* ------------------------------------------------------------------ properties
Ids == 1..Len(calls)
TaskIds(id) == 1..Len(calls[id].tasks)
InLedger(id) == FindIndex(requestHistory, id) # 0
StatusIn(history, id) ==
    IF FindIndex(history, id) = 0 THEN "absent" ELSE getRequestById(history, id).status
StatusOf(id) == StatusIn(requestHistory, id)
Terminal == {"completed", "failed"}
AllSettled(id) == Settled(calls[id]) = TaskIds(id)

\* A ChainData whose payload is an error marker.
IsChainData(r) == DOMAIN r = {"chainKey", "eid", "blockNumber", "timestamp", "data"}
IsError(r) == IsChainData(r) /\ "error" \in DOMAIN r.data

RECURSIVE IsSubseq(_, _)
IsSubseq(s, t) ==
    IF s = <<>> THEN TRUE
    ELSE IF t = <<>> THEN FALSE
    ELSE IF Head(s) = Head(t) THEN IsSubseq(Tail(s), Tail(t))
    ELSE IsSubseq(s, Tail(t))

\* The results of the completed query record of dispatch id.
ResultsOf(id) == getRequestById(requestHistory, id).result.results
CompletedQuery(id) == calls[id].kind = "query" /\ StatusOf(id) = "completed"

\* C1: in every completed record of performCrossChainQuery, result.results is
\* exactly the list of the per-chain results without an error payload, in
\* order: no entry carries an error marker, every success appears.
C1_ResultsExcludeErrors ==
    \A id \in Ids :
        CompletedQuery(id) =>
            ResultsOf(id) =
                SelectSeqBy(JoinValues(calls[id]),
                            {i \in TaskIds(id) :
                                /\ IsChainData(calls[id].tasks[i].value)
                                /\ ~IsError(calls[id].tasks[i].value)})

\* C2: getRecentRequests(limit) does not mutate the ledger: the ledger holds
\* the same records in the same order after the call as before it.
C2_RecentLeavesLedger ==
    [][\A limit \in Limits :
          GetRecentRequests(limit) => requestHistory' = requestHistory]_vars

\* C3: when the primary call of fetchChainData succeeded, the returned
\* ChainData carries the primary data and is no error result, whatever
\* happened to the block-header call.
C3_HeaderFailureKeepsPrimaryData ==
    \A id \in Ids : \A i \in TaskIds(id) :
        LET task == calls[id].tasks[i]
        IN (task.pc = "settled" /\ task.data # Unset) =>
              /\ IsChainData(task.result)
              /\ ~IsError(task.result)
              /\ task.result.data = task.data

\* C4: the status of a ledger record changes only from pending to completed
\* or failed; a completed or failed record never changes again and none of
\* the calls of its dispatch is issued again.
C4_StatusOneWay ==
    [][\A k \in 1..Len(requestHistory) :
          LET old == requestHistory[k]
              new == getRequestById(requestHistory', old.id)
          IN /\ new # Unset
             /\ new.status # old.status =>
                   (old.status = "pending" /\ new.status \in Terminal)
             /\ old.status \in Terminal =>
                   (new = old /\ calls'[old.id] = calls[old.id])]_vars

\* A second dispatch is pending next to a completed one, and a read has put
\* the newer record first.
C4_Witness ==
    /\ Len(calls) = 2
    /\ StatusOf(1) = "completed"
    /\ StatusOf(2) = "pending"
    /\ requestHistory[1].id = 2

\* C5: from the dispatch on and as long as a per-chain call of it is
\* outstanding, the record is in the ledger with status pending, and
\* getRequestById and getRecentRequests return it so, before and after the
\* sort a read runs.
C5_PendingWhileInFlight ==
    \A id \in Ids :
        ~AllSettled(id) =>
            /\ InLedger(id)
            /\ StatusOf(id) = "pending"
            /\ StatusIn(SortedHistory(requestHistory), id) = "pending"
            /\ \A limit \in Limits :
                  LET recent == getRecentRequests(requestHistory, limit)
                  IN /\ \A k \in 1..Len(recent) :
                           recent[k].id = id => recent[k].status = "pending"
                     /\ limit >= Len(requestHistory) =>
                           \E k \in 1..Len(recent) : recent[k].id = id

\* Two dispatches are in flight, the first waiting for its block-header call,
\* and a read has put the newer record first.
C5_Witness ==
    /\ Len(calls) = 2
    /\ \E i \in TaskIds(1) : calls[1].tasks[i].pc = "header"
    /\ ~AllSettled(2)
    /\ requestHistory[1].id = 2

\* C6: a record is completed only when every per-chain promise of its
\* dispatch has settled.
C6_JoinAll ==
    \A id \in Ids : StatusOf(id) = "completed" => AllSettled(id)

\* A completed wallet vacuum whose two calls came back in reverse order.
C6_Witness ==
    \E id \in Ids :
        /\ StatusOf(id) = "completed"
        /\ calls[id].kind = "wallet_vacuum"
        /\ calls[id].order = <<2, 1>>

\* C7: whatever the per-chain outcomes, performCrossChainQuery returns its
\* record, completed, once every chain has settled; a record is failed only
\* when a per-chain promise was rejected.
C7_AlwaysCompleted ==
    \A id \in Ids :
        /\ InLedger(id)
        /\ AllSettled(id) => (calls[id].returned /\ StatusOf(id) = "completed")
        /\ StatusOf(id) = "failed" => JoinRejected(calls[id])

\* A completed query of two chains, one skipped as unconfigured and one that
\* came back with an error payload.
C7_Witness ==
    \E id \in Ids :
        /\ CompletedQuery(id)
        /\ calls[id].returned
        /\ \E i \in TaskIds(id) : calls[id].tasks[i].value = NullResult
        /\ \E i \in TaskIds(id) : IsError(calls[id].tasks[i].value)

\* C8: in performCrossChainQuery a chain key absent from chainConfigMap
\* resolves to an error ChainData with block number 0 for that chain.
C8_UnconfiguredIsExplicitError ==
    \A id \in Ids : \A i \in TaskIds(id) :
        (calls[id].kind = "query" /\ calls[id].chains[i] \notin ConfiguredChains) =>
            /\ calls[id].tasks[i].pc = "settled"
            /\ IsError(calls[id].tasks[i].value)
            /\ calls[id].tasks[i].value.chainKey = calls[id].chains[i]
            /\ calls[id].tasks[i].value.blockNumber = 0

\* C9: the chain keys of result.results form a subsequence of query.chains,
\* whatever order the per-chain calls completed in.
C9_ResultsInChainOrder ==
    \A id \in Ids :
        CompletedQuery(id) =>
            IsSubseq([k \in 1..Len(ResultsOf(id)) |-> ResultsOf(id)[k].chainKey],
                     calls[id].chains)

\* A completed query of two different chains whose second call came back first.
C9_Witness ==
    \E id \in Ids :
        /\ CompletedQuery(id)
        /\ calls[id].order = <<2, 1>>
        /\ calls[id].chains[1] # calls[id].chains[2]
        /\ Len(ResultsOf(id)) = 2

\* C10: fetchChainData settles with one ChainData labelled with the chain key
\* and endpoint id it was called with and never rejects; when its RPC call
\* timed out or failed, the ChainData has an error payload with a message,
\* block number 0 and a non-zero timestamp.
C10_FailureIsCaptured ==
    \A id \in Ids : \A i \in TaskIds(id) :
        LET task == calls[id].tasks[i]
        IN calls[id].chains[i] \in ConfiguredChains =>
              /\ task.pc # "settled" => task.result = Unset
              /\ task.pc = "settled" =>
                    /\ IsChainData(task.result)
                    /\ task.result.chainKey = calls[id].chains[i]
                    /\ task.result.eid = chainConfigMap[calls[id].chains[i]]
                    /\ task.data = Unset => IsError(task.result)
                    /\ IsError(task.result) =>
                          /\ task.result.data.error # ""
                          /\ task.result.blockNumber = 0
                          /\ task.result.timestamp # 0

\* A resolver whose primary call was aborted by the timeout.
C10_Witness ==
    \E id \in Ids : \E i \in TaskIds(id) :
        /\ calls[id].tasks[i].pc = "settled"
        /\ calls[id].tasks[i].data = Unset
        /\ IsError(calls[id].tasks[i].result)
        /\ calls[id].tasks[i].result.data.error = ErrorMessage("timeout")

\* ------------------------------------------------ every call comes back (fair)
\* Inputs of SpecLive: a single dispatch of either kind over every list of
\* configured and unconfigured chains, whose calls succeed, fail or are aborted.
LiveChainLists == ChainListsOf({"ethereum", "doesnotexist"})
LiveQueries == [address : Addresses, queryType : {"balance"}, chains : LiveChainLists]
LivePrimaryOutcomes ==
    {o \in PrimaryOutcomes : o = [kind |-> "ok", result |-> Hex(100000000, 0)]
                             \/ o.kind \in {"http", "timeout"}}
LiveHeaderOutcomes == {o \in HeaderOutcomes : o.kind \in {"ok", "timeout"}}

\* The per-chain call (id, i) comes back: fetchApi settles with a response or a
\* failure, or the 10 s abort timer fires.
Respond(id, i) ==
    \/ \E o \in LivePrimaryOutcomes : PrimaryResponse(id, i, o)
    \/ \E o \in LiveHeaderOutcomes : HeaderResponse(id, i, o)

NextLive ==
    \/ /\ Len(calls) < 1
       /\ \E q \in LiveQueries : DispatchQuery(q)
    \/ /\ Len(calls) < 1
       /\ \E a \in Addresses, c \in LiveChainLists : DispatchVacuum(a, c)
    \/ \E i \in 1..MaxChains : Respond(1, i)

\* Every outstanding call eventually comes back.
EveryCallReturns == \A i \in 1..MaxChains : WF_vars(Respond(1, i))

SpecLive == Init /\ [][NextLive]_vars /\ EveryCallReturns

\* C11: every dispatched request eventually leaves pending: when each of its
\* calls responds or is aborted, the record becomes completed or failed,
\* whatever the number of target chains.
C11_LeavesPending ==
    (1 \in Ids /\ StatusOf(1) = "pending") ~> (1 \in Ids /\ StatusOf(1) \in Terminal)

\* A dispatch over as many configured chains as a list holds, with every call
\* outstanding.
C11_Witness ==
    /\ 1 \in Ids
    /\ StatusOf(1) = "pending"
    /\ Len(calls[1].tasks) = MaxChains
    /\ \A i \in TaskIds(1) : calls[1].tasks[i].pc = "primary"

\* ------------------------------------------------------------ reading the ledger
RecentIds(history, limit) ==
    LET recent == getRecentRequests(history, limit)
    IN [k \in 1..Len(recent) |-> recent[k].id]

\* C12 as stated: getRecentRequests(N) returns at most N records, the N most
\* recently created ones, in strictly descending timestamp order also when
\* two records carry the same timestamp; a second call returns the same.
C12_RecentStrictlyDescending ==
    \A limit \in Limits :
        LET recent == getRecentRequests(requestHistory, limit)
        IN /\ Len(recent) <= limit
           /\ \A k \in 1..Len(recent) : \A l \in (k + 1)..Len(recent) :
                 recent[k].timestamp > recent[l].timestamp
           /\ {recent[k].id : k \in 1..Len(recent)} =
                 {id \in Ids : id > Len(calls) - limit}
           /\ getRecentRequests(SortedHistory(requestHistory), limit) = recent

\* C12 amended: getRecentRequests(N) returns min(N, ledger size) records in
\* non-increasing timestamp order, records of equal timestamp in the order
\* they were created; no record left out is newer than one returned; a
\* second call, and any call before the next dispatch, returns the same
\* records in the same order.
C12_RecentDescending ==
    /\ [](\A limit \in Limits :
            LET recent == getRecentRequests(requestHistory, limit)
            IN /\ Len(recent) = Min(limit, Len(requestHistory))
               /\ \A k \in 1..Len(recent) : \A l \in (k + 1)..Len(recent) :
                     \/ recent[k].timestamp > recent[l].timestamp
                     \/ /\ recent[k].timestamp = recent[l].timestamp
                        /\ recent[k].id < recent[l].id
               /\ \A j \in 1..Len(requestHistory) :
                     (\A k \in 1..Len(recent) : recent[k].id # requestHistory[j].id) =>
                        \A k \in 1..Len(recent) :
                           recent[k].timestamp >= requestHistory[j].timestamp
               /\ getRecentRequests(SortedHistory(requestHistory), limit) = recent)
    /\ [][\A limit \in Limits :
            Len(calls') = Len(calls) =>
               RecentIds(requestHistory', limit) = RecentIds(requestHistory, limit)]_vars

\* Two records created at the same timestamp, of which a call with limit 1
\* returns the one created first.
C12_Witness ==
    /\ Len(requestHistory) = 2
    /\ requestHistory[1].timestamp = requestHistory[2].timestamp
    /\ RecentIds(requestHistory, 1) = <<1>>

\* C13: getRequestById returns equal records for an id as long as the record's
\* status does not change, whatever else runs in between (a read that sorts
\* the ledger, another dispatch, a reply to another call); once the record
\* went from pending to completed it returns the record with its resolved
\* field set and nothing else changed.
C13_GetByIdIdempotent ==
    [][\A id \in Ids :
          LET old == getRequestById(requestHistory, id)
              new == getRequestById(requestHistory', id)
          IN /\ old # Unset
             /\ new # Unset
             /\ new.status = old.status => new = old
             /\ (old.status = "pending" /\ new.status = "completed") =>
                   /\ new.result # Unset \/ new.walletScan # Unset
                   /\ [new EXCEPT !.status = "pending", !.result = Unset,
                                  !.walletScan = Unset] = old]_vars

\* A completed wallet scan that a read has moved in front of an older record
\* which is still pending.
C13_Witness ==
    /\ Len(calls) = 2
    /\ requestHistory[1].id = 2
    /\ StatusOf(1) = "pending"
    /\ StatusOf(2) = "completed"
    /\ getRequestById(requestHistory, 2).walletScan # Unset

\* C14: for any interleaving of query and wallet-vacuum dispatches the ledger
\* holds exactly one record per dispatch started, every one of them is
\* returned by getRequestById, and no step removes a record.
C14_OneRecordPerDispatch ==
    /\ [](/\ Len(requestHistory) = Len(calls)
          /\ \A id \in Ids :
                /\ Cardinality({k \in 1..Len(requestHistory) :
                                   requestHistory[k].id = id}) = 1
                /\ getRequestById(requestHistory, id) # Unset
                /\ getRequestById(requestHistory, id).id = id
                /\ getRequestById(requestHistory, id).requestType =
                      IF calls[id].kind = "wallet_vacuum" THEN "wallet_vacuum"
                      ELSE calls[id].queryType)
    /\ [][\A k \in 1..Len(requestHistory) :
            \E l \in 1..Len(requestHistory') :
               requestHistory'[l].id = requestHistory[k].id]_vars

\* A query and a wallet vacuum are both in flight, and a read has sorted the
\* ledger in between.
C14_Witness ==
    /\ Len(calls) = 2
    /\ calls[1].kind # calls[2].kind
    /\ ~AllSettled(1)
    /\ ~AllSettled(2)
    /\ requestHistory[1].id = 2

\* ------------------------------------------------------------- the wallet scan
\* The walletScan of the completed wallet-vacuum record of dispatch id.
ScanOf(id) == getRequestById(requestHistory, id).walletScan
CompletedScan(id) == calls[id].kind = "wallet_vacuum" /\ StatusOf(id) = "completed"
AssetChains(assets) == {assets[k].chain : k \in 1..Len(assets)}

\* C15: in performWalletVacuum a chain key absent from chainConfigMap is left
\* out: no asset of the scan names it, the assets are those of the configured
\* chains of the list in order, it is not counted in chainsWithAssets, and
\* the record is completed, not failed, once the other chains have settled.
C15_UnconfiguredOmitted ==
    \A id \in Ids :
        calls[id].kind = "wallet_vacuum" =>
            /\ StatusOf(id) # "failed"
            /\ AllSettled(id) => StatusOf(id) = "completed"
            /\ CompletedScan(id) =>
                  LET scan == ScanOf(id)
                      configured == SelectSeqBy(calls[id].chains,
                                       {i \in TaskIds(id) :
                                           calls[id].chains[i] \in ConfiguredChains})
                  IN /\ [k \in 1..Len(scan.assets) |-> scan.assets[k].chain] = configured
                     /\ scan.chainsWithAssets <= Cardinality(AssetChains(scan.assets))

\* A completed scan of an unconfigured chain and a configured one that holds
\* a balance.
C15_Witness ==
    \E id \in Ids :
        /\ CompletedScan(id)
        /\ calls[id].chains = <<"doesnotexist", "ethereum">>
        /\ Len(ScanOf(id).assets) = 1
        /\ ScanOf(id).chainsWithAssets = 1

\* The balance call of chain i of dispatch id came back with a non-zero balance.
HoldsBalance(id, i) ==
    LET r == calls[id].tasks[i].result
    IN /\ IsChainData(r)
       /\ ~IsError(r)
       /\ "hex" \in DOMAIN r.data
       /\ r.data # ZeroHex

\* C16: in a completed wallet scan chainsWithAssets is the number of distinct
\* requested chains whose balance call returned a non-zero balance: a zero
\* balance, a failed balance call and a repeated chain key do not add to it.
C16_CountsNonZeroChains ==
    \A id \in Ids :
        CompletedScan(id) =>
            ScanOf(id).chainsWithAssets =
                Cardinality({calls[id].chains[i] : i \in {j \in TaskIds(id) : HoldsBalance(id, j)}})

\* C17: in every ledger state a pending or failed record has neither result
\* nor walletScan; a completed record of a query has result and no
\* walletScan; a completed wallet_vacuum record has walletScan and no result.
C17_StatusMatchesResolvedFields ==
    \A k \in 1..Len(requestHistory) :
        LET r == requestHistory[k]
        IN /\ r.status \in {"pending", "completed", "failed"}
           /\ r.status \in {"pending", "failed"} =>
                 (r.result = Unset /\ r.walletScan = Unset)
           /\ (r.status = "completed" /\ r.requestType # "wallet_vacuum") =>
                 (r.result # Unset /\ r.walletScan = Unset)
           /\ (r.status = "completed" /\ r.requestType = "wallet_vacuum") =>
                 (r.walletScan # Unset /\ r.result = Unset)

\* A completed query, and next to it a wallet vacuum that is completed too.
C17_Witness ==
    /\ Len(calls) = 2
    /\ \E id \in Ids : CompletedQuery(id) /\ ResultsOf(id) # <<>>
    /\ \E id \in Ids : CompletedScan(id) /\ ScanOf(id).assets # <<>>

\* -------------------------------------------- one resolver, its requests and data
MaxTxs == 2     \* transactions in a fetched block

\* Inputs of SpecRequest: one query of one configured chain, with or without
\* a block number, for an address in either letter case; every outcome of its
\* calls, the primary reply being a plain value or a block of transactions.
BlockNumbers == {0, 1, 26}
RequestAddresses == {"0xabc", "0xABC"}
RequestChainLists == {<<"ethereum">>}
RequestQueries ==
    [address : RequestAddresses, queryType : QueryTypes, chains : RequestChainLists]
    \cup [address : RequestAddresses, queryType : QueryTypes,
          chains : RequestChainLists, blockNumber : BlockNumbers]

\* A transaction of a block: from, and to unless it creates a contract.
Transactions ==
    [from : {"0xABC", "0xdef"}, to : {"0xabc", "0xdef"}] \cup [from : {"0xABC", "0xdef"}]
TransactionLists == UNION {[1..n -> Transactions] : n \in 0..MaxTxs}

\* A primary reply whose result is a block with full transaction objects.
BlockOutcomes ==
    {[kind |-> "ok", result |-> [number |-> "0x7", timestamp |-> "0x2",
                                 transactions |-> txs]] : txs \in TransactionLists}
RequestPrimaryOutcomes == PrimaryOutcomes \cup BlockOutcomes

NextRequest ==
    \/ /\ Len(calls) < 1
       /\ \E q \in RequestQueries : DispatchQuery(q)
    \/ \E i \in 1..MaxChains, o \in RequestPrimaryOutcomes : PrimaryResponse(1, i, o)
    \/ \E i \in 1..MaxChains, o \in HeaderOutcomes : HeaderResponse(1, i, o)

SpecRequest == Init /\ [][NextRequest]_vars

\* The block parameter of a request that was sent.
BlockParam(request) ==
    IF request.method = "eth_getBlockByNumber" THEN request.params[1]
    ELSE request.params[2]

\* The hex strings of the block numbers of the model.
HexOf(n) == CASE n = 0 -> "0x0" [] n = 1 -> "0x1" [] n = 26 -> "0x1a"

\* C18: every RPC call of fetchChainData, primary and block-header, carries
\* the query's block number as a hex string whenever the query has one,
\* block number 0 included, and "latest" only when it has none.
C18_BlockNumberIsSent ==
    \A id \in Ids : \A i \in TaskIds(id) :
        LET task == calls[id].tasks[i]
        IN \A k \in 1..Len(task.sent) :
              BlockParam(task.sent[k]) =
                 IF "blockNumber" \in DOMAIN task.query
                 THEN HexOf(task.query.blockNumber)
                 ELSE "latest"

\* C19: a primary call that answers with a non-2xx HTTP status or with a
\* JSON-RPC error field makes fetchChainData return an error ChainData for
\* its chain without a block-header call being issued; a block-header call
\* is issued only in the step in which a primary call succeeded.
C19_NoHeaderCallAfterFailure ==
    [][\A id \in Ids : \A i \in TaskIds(id) :
          LET task == calls[id].tasks[i]
              after == calls'[id].tasks[i]
          IN /\ \A o \in RequestPrimaryOutcomes :
                   (o.kind \in {"http", "rpc"} /\ PrimaryResponse(id, i, o)) =>
                      /\ after.pc = "settled"
                      /\ IsError(after.result)
                      /\ after.result.chainKey = task.chainKey
                      /\ after.result.blockNumber = 0
                      /\ after.sent = <<PrimaryRequest(task.query)>>
             /\ Len(after.sent) > Len(task.sent) =>
                   /\ after.sent = <<PrimaryRequest(task.query), HeaderRequest(task.query)>>
                   /\ \E o \in RequestPrimaryOutcomes :
                         o.kind = "ok" /\ PrimaryResponse(id, i, o)]_vars

\* A resolver settled with the error of an HTTP failure of its primary call,
\* having sent that call only.
C19_Witness ==
    \E id \in Ids : \E i \in TaskIds(id) :
        LET task == calls[id].tasks[i]
        IN /\ task.pc = "settled"
           /\ IsError(task.result)
           /\ task.result.data.error = ErrorMessage("http")
           /\ Len(task.sent) = 1

\* Equality of two addresses of the model ignoring letter case.
SameAddress(a, b) == a = b \/ {a, b} = {"0xabc", "0xABC"}
Matches(tx, address) ==
    \/ SameAddress(tx.from, address)
    \/ "to" \in DOMAIN tx /\ SameAddress(tx.to, address)

\* C20: for a transactions query the payload's transaction list holds exactly
\* the transactions of the fetched block whose from or to is the queried
\* address ignoring letter case, in block order; a transaction without to is
\* kept only if its from matches.
C20_RelatedTransactionsOnly ==
    [][\A id \in Ids : \A i \in TaskIds(id) : \A o \in BlockOutcomes :
          (calls[id].queryType = "transactions" /\ PrimaryResponse(id, i, o)) =>
             LET txs == o.result.transactions
                 kept == calls'[id].tasks[i].data.transactions
                 address == calls[id].address
             IN /\ IsSubseq(kept, txs)
                /\ \A k \in 1..Len(kept) : Matches(kept[k], address)
                /\ Len(kept) = Cardinality({k \in 1..Len(txs) : Matches(txs[k], address)})]_vars

\* A payload that kept a contract creation sent by the queried address,
\* written in the other letter case, out of a block of two transactions.
C20_Witness ==
    \E id \in Ids : \E i \in TaskIds(id) :
        LET task == calls[id].tasks[i]
        IN /\ calls[id].queryType = "transactions"
           /\ calls[id].address = "0xabc"
           /\ task.pc = "settled"
           /\ ~IsError(task.result)
           /\ "transactions" \in DOMAIN task.result.data
           /\ task.result.data.transactions = <<[from |-> "0xABC"]>>

\* ------------------------------------------------- one balance, formatted
\* Inputs of SpecBalance: a wallet vacuum of one configured chain whose
\* balance call answers with a hex quantity around the display threshold of
\* 10^14 raw units, with no result, with a string that is no hex quantity, or
\* with an HTTP error.
BalanceHighs == {0, 1, 99999, 100000, 100001, 15000000}
BalanceLows == {0, 1, 999999999}
NotHex == [string |-> "pending"]
Balances == {Hex(hi, lo) : hi \in BalanceHighs, lo \in BalanceLows} \cup {NullData, NotHex}
BalanceOutcomes ==
    {[kind |-> "ok", result |-> b] : b \in Balances} \cup {[kind |-> "http"]}
BalanceHeaderOutcomes == {o \in HeaderOutcomes : o.kind \in {"ok", "noresult"}}
BalanceChainLists == {<<"ethereum">>, <<"polygon">>}

NextBalance ==
    \/ /\ Len(calls) < 1
       /\ \E a \in Addresses, c \in BalanceChainLists : DispatchVacuum(a, c)
    \/ \E i \in 1..MaxChains, o \in BalanceOutcomes : PrimaryResponse(1, i, o)
    \/ \E i \in 1..MaxChains, o \in BalanceHeaderOutcomes : HeaderResponse(1, i, o)

SpecBalance == Init /\ [][NextBalance]_vars

\* The assets of the completed scans of the ledger.
ScannedAssets ==
    UNION {{ScanOf(id).assets[k] : k \in 1..Len(ScanOf(id).assets)} :
              id \in {j \in Ids : CompletedScan(j)}}
IsHex(balance) == "hex" \in DOMAIN balance

\* C21: formatBalance(hex, 18) is "0" for "0x0" and "< 0.0001" for every
\* positive balance below 10^14 raw units (hi * 10^9 + lo with hi < 10^5).
C21_SmallBalances ==
    \A asset \in ScannedAssets :
        /\ asset.balance = ZeroHex => asset.balanceFormatted = Text("0")
        /\ (IsHex(asset.balance) /\ asset.balance # ZeroHex
               /\ asset.balance.hex[1] <= 99999) =>
              asset.balanceFormatted = Text("< 0.0001")

\* A scan that formatted the largest balance below the threshold, 10^14 - 1.
C21_Witness ==
    \E asset \in ScannedAssets :
        /\ asset.balance = Hex(99999, 999999999)
        /\ asset.balanceFormatted = Text("< 0.0001")

\* C22: formatBalance returns "0" for an input that is no hex balance (a
\* string that is no hex quantity, the error object of a failed balance
\* call) and never the text of not-a-number.
C22_UnparseableIsZero ==
    \A asset \in ScannedAssets :
        /\ ~IsHex(asset.balance) => asset.balanceFormatted = Text("0")
        /\ asset.balanceFormatted # Text("NaN")

\* ------------------------------------------------------------ who writes what
\* C23: a step of fetchChainData (a reply to one of its calls, whether it
\* lets the invocation go on, succeed or fail) leaves the ledger as it is
\* unless it settles the join of its dispatch, in which case the dispatcher
\* running in that turn changes the record of that dispatch and nothing else.
C23_ResolverLeavesLedger ==
    [][\A id \in Ids : \A i \in TaskIds(id) :
          calls'[id].tasks[i].pc # calls[id].tasks[i].pc =>
             IF Settled(calls'[id]) = TaskIds(id)
             THEN \A k \in 1..Len(requestHistory) :
                     requestHistory[k].id # id => requestHistory'[k] = requestHistory[k]
             ELSE requestHistory' = requestHistory]_vars

\* One invocation has returned an error result while another of the same
\* dispatch is waiting for its block-header call, and the record is pending.
C23_Witness ==
    \E id \in Ids :
        /\ StatusOf(id) = "pending"
        /\ \E i \in TaskIds(id) : IsError(calls[id].tasks[i].result)
        /\ \E i \in TaskIds(id) : calls[id].tasks[i].pc = "header"

\* C24: a ledger record changes only in a step of its own dispatch, and then
\* only in status, result and walletScan: the records of all other
\* dispatches, in flight or not, are the same after the step.
C24_DispatchesAreIsolated ==
    [][\A id \in Ids :
          LET old == getRequestById(requestHistory, id)
              new == getRequestById(requestHistory', id)
          IN /\ calls'[id] = calls[id] => new = old
             /\ [new EXCEPT !.status = "pending", !.result = Unset,
                            !.walletScan = Unset]
                = [old EXCEPT !.status = "pending", !.result = Unset,
                              !.walletScan = Unset]]_vars

\* The second of two dispatches has completed while the first, created
\* earlier, is still waiting for a block-header reply.
C24_Witness ==
    /\ Len(calls) = 2
    /\ StatusOf(2) = "completed"
    /\ StatusOf(1) = "pending"
    /\ \E i \in TaskIds(1) : calls[1].tasks[i].pc = "header"

\* C25: in a completed wallet scan every asset comes from a balance call that
\* succeeded and its balance is a hex string: a chain whose balance call came
\* back as an error payload has no asset whose balance is the error object.
C25_AssetsHoldBalances ==
    \A id \in Ids :
        CompletedScan(id) =>
            LET assets == ScanOf(id).assets
            IN /\ \A k \in 1..Len(assets) :
                     /\ IsHex(assets[k].balance)
                     /\ "error" \notin DOMAIN assets[k].balance
               /\ \A k \in 1..Len(assets) :
                     \E i \in TaskIds(id) :
                        /\ calls[id].chains[i] = assets[k].chain
                        /\ IsChainData(calls[id].tasks[i].result)
                        /\ ~IsError(calls[id].tasks[i].result)

\* C26: in every completed wallet scan chainsWithAssets <= number of assets
\* <= totalChains, totalChains is the length of the requested chain list,
\* unconfigured chains included, and the assets follow the order of that list.
C26_ScanCounts ==
    \A id \in Ids :
        CompletedScan(id) =>
            LET scan == ScanOf(id)
            IN /\ scan.chainsWithAssets <= Len(scan.assets)
               /\ Len(scan.assets) <= scan.totalChains
               /\ scan.totalChains = Len(calls[id].chains)
               /\ IsSubseq([k \in 1..Len(scan.assets) |-> scan.assets[k].chain],
                           calls[id].chains)
               /\ \A k \in 1..Len(scan.assets) : \E i \in TaskIds(id) :
                     /\ calls[id].chains[i] = scan.assets[k].chain
                     /\ calls[id].tasks[i].value = scan.assets[k]
                     /\ i >= k

\* A completed scan of two different configured chains of which one holds a
\* balance and one holds none, the calls having come back in reverse order.
C26_Witness ==
    \E id \in Ids :
        /\ CompletedScan(id)
        /\ calls[id].order = <<2, 1>>
        /\ calls[id].chains[1] # calls[id].chains[2]
        /\ ScanOf(id).chainsWithAssets = 1
        /\ Len(ScanOf(id).assets) = 2
\* ------------------------------------------------------------------- C27
\* C27: the one abort timer a resolver arms stays armed over both of its RPC
\* calls, so either call can be aborted, and it is no longer armed once the
\* resolver has returned, whichever way it left: with a result, with an HTTP
\* error, a JSON-RPC error, a network error, an unparseable body or the
\* abort itself. A resolver that made no call never armed one.
C27_TimerCleared ==
    \A id \in Ids : \A i \in TaskIds(id) :
        LET task == calls[id].tasks[i]
        IN /\ task.pc \in {"primary", "header"} => task.timer = "armed"
           /\ task.pc = "settled" =>
                 /\ task.timer # "armed"
                 /\ task.timer = "none" <=> task.sent = <<>>
                 /\ task.timer = "fired" <=>
                       /\ IsChainData(task.result)
                       /\ IsError(task.result)
                       /\ task.result.data.error = ErrorMessage("timeout")

\* A query of two chains where one resolver was aborted during its
\* block-header call and the other returned an HTTP error of its primary
\* call.
C27_Witness ==
    \E id \in Ids : \E i, j \in TaskIds(id) :
        /\ calls[id].tasks[i].pc = "settled"
        /\ Len(calls[id].tasks[i].sent) = 2
        /\ calls[id].tasks[i].timer = "fired"
        /\ calls[id].tasks[j].pc = "settled"
        /\ calls[id].tasks[j].timer = "cleared"
        /\ IsChainData(calls[id].tasks[j].result)
        /\ IsError(calls[id].tasks[j].result)
        /\ calls[id].tasks[j].result.data.error = ErrorMessage("http")
\* ------------------------------------------------ deployments: cache and sync
\* Time is counted in minutes here.
CACHE_DURATION == 5     \* how long the metadata cache is served
SyncInterval == 5       \* delay of the next sync after one that succeeded
RetryInterval == 1      \* delay of the next sync after one that failed
batchSize == 20         \* rows per insert of cacheDeployments

MaxMinutes == 7         \* how far the clock runs
MaxLookups == 1         \* fetchDeploymentById calls waiting for the API

\* Array.prototype.splice(k, 1)
RemoveAt(s, k) == SubSeq(s, 1, k - 1) \o SubSeq(s, k + 1, Len(s))
Range(s) == {s[k] : k \in DOMAIN s}

\* The processed deployments of one state of the metadata API: n deployments
\* in the given version of their content.
ProcessedData(version, n) == [k \in 1..n |-> [id |-> k, version |-> version]]

\* The states of the metadata API: no deployments, more than one batch of
\* them, and later a single one.
MetadataBodies == {<<>>, ProcessedData(1, batchSize + 1), ProcessedData(2, 1)}

\* The rows a previous process has left in the table.
StoredBefore == Range(ProcessedData(0, 1))

\* What the GET of the metadata can come back with: a body that is processed
\* into deployments, an HTTP error status, a failed fetch, a body that is not
\* JSON, or JSON whose processing throws.
MetadataOutcomes ==
    {[kind |-> "ok", data |-> body] : body \in MetadataBodies}
    \cup {[kind |-> k] : k \in {"http", "network", "badjson", "malformed"}}

\* The cache test at the head of fetchLayerZeroDeployments.
Fresh(cache, t) == cache # NoCache /\ t - cache.timestamp < CACHE_DURATION

\* A catch block that serves the cache and throws on when there is none.
OnFetchError_Rethrow(cache) ==
    IF cache # NoCache
    THEN [thrown |-> FALSE, value |-> cache.data]
    ELSE [thrown |-> TRUE, value |-> <<>>]

\* The catch block of fetchLayerZeroDeployments: the cache, expired or not,
\* and an empty array when there is none.
OnFetchError(cache) ==
    [thrown |-> FALSE, value |-> IF cache # NoCache THEN cache.data ELSE <<>>]

\* fetchLayerZeroDeployments from the reply o of its GET at time t: the new
\* cache and what the call returns or throws.
OnMetadata(cache, o, t) ==
    IF o.kind = "ok"
    THEN [cache |-> [data |-> o.data, timestamp |-> t], failed |-> FALSE,
          thrown |-> FALSE, value |-> o.data]
    ELSE [cache |-> cache, failed |-> TRUE,
          thrown |-> OnFetchError(cache).thrown,
          value |-> OnFetchError(cache).value]

\* fetchLayerZeroDeployments served from the cache.
FromCache(cache) ==
    [cache |-> cache, failed |-> FALSE, thrown |-> FALSE, value |-> cache.data]

\* The record of a return of fetchLayerZeroDeployments; turn tells one
\* return from the next, outbound whether the call went to the API.
Return(last, r, outbound) ==
    [turn |-> 1 - last.turn, value |-> r.value, failed |-> r.failed,
     thrown |-> r.thrown, outbound |-> outbound]

\* syncDeploymentsData waiting for the metadata.
AwaitingMetadata == [pc |-> "fetch", data |-> <<>>, i |-> 0, previous |-> {}]

\* cacheDeployments up to its first suspension: the rows are built and the
\* delete is issued. previous is the table's content at the call.
cacheDeployments(processedDeployments, table) ==
    [pc |-> "delete", data |-> processedDeployments, i |-> 0, previous |-> table]

\* deploymentsToInsert.slice(i, i + batchSize), as rows
Batch(data, i) == {data[k] : k \in (i + 1)..Min(i + batchSize, Len(data))}

\* The setTimeout at the end of syncDeploymentsData's try block, or the one
\* in its catch block.
Schedule(pending, succeeded, t) ==
    Append(pending, IF succeeded
                    THEN [due |-> t + SyncInterval, after |-> "success"]
                    ELSE [due |-> t + RetryInterval, after |-> "failure"])

\* The state of the server when its startup calls syncDeploymentsData for
\* the first time: no cache, the table as a previous process left it.
InitSync ==
    /\ requestHistory = <<>>
    /\ calls = <<>>
    /\ now = 1
    /\ cachedDeployments = NoCache
    /\ deployments \in {{}, StoredBefore}
    /\ fetches = <<[caller |-> "sync", silent |-> FALSE]>>
    /\ returned = NothingYet
    /\ runs = <<AwaitingMetadata>>
    /\ timers = <<>>
    /\ selected = NothingYet

\* A timer of the sync fires: syncDeploymentsData runs up to its first wait,
\* for the metadata API or, when the cache is served, for the delete.
TimerFires(k) ==
    /\ k \in 1..Len(timers)
    /\ now >= timers[k].due
    /\ timers' = RemoveAt(timers, k)
    /\ IF Fresh(cachedDeployments, now)
       THEN /\ runs' = Append(runs, cacheDeployments(cachedDeployments.data, deployments))
            /\ returned' = Return(returned, FromCache(cachedDeployments), FALSE)
            /\ UNCHANGED fetches
       ELSE /\ runs' = Append(runs, AwaitingMetadata)
            /\ fetches' = Append(fetches, [caller |-> "sync", silent |-> FALSE])
            /\ UNCHANGED returned
    /\ UNCHANGED <<requestHistory, calls, now, cachedDeployments, deployments, selected>>

\* fetchDeploymentById(id) calls fetchLayerZeroDeployments.
FetchDeploymentById ==
    /\ Cardinality({k \in 1..Len(fetches) : fetches[k].caller = "byId"}) < MaxLookups
    /\ IF Fresh(cachedDeployments, now)
       THEN /\ returned' = Return(returned, FromCache(cachedDeployments), FALSE)
            /\ UNCHANGED fetches
       ELSE /\ fetches' = Append(fetches, [caller |-> "byId", silent |-> FALSE])
            /\ UNCHANGED returned
    /\ UNCHANGED <<requestHistory, calls, now, cachedDeployments, deployments,
                   runs, timers, selected>>

\* The first sync waiting for the metadata.
FirstAwaiting == CHOOSE j \in 1..Len(runs) : runs[j].pc = "fetch"

\* The GET of the metadata comes back or fails: fetchLayerZeroDeployments
\* returns, and a sync that waited for it goes on to cacheDeployments, or to
\* its catch block when the call threw.
MetadataResponse(k, o) ==
    /\ k \in 1..Len(fetches)
    /\ ~fetches[k].silent
    /\ LET r == OnMetadata(cachedDeployments, o, now)
       IN /\ cachedDeployments' = r.cache
          /\ fetches' = RemoveAt(fetches, k)
          /\ returned' = Return(returned, r, TRUE)
          /\ IF fetches[k].caller # "sync"
             THEN UNCHANGED <<runs, timers>>
             ELSE IF r.thrown
             THEN /\ runs' = RemoveAt(runs, FirstAwaiting)
                  /\ timers' = Schedule(timers, FALSE, now)
             ELSE /\ runs' = [runs EXCEPT ![FirstAwaiting] =
                                 cacheDeployments(r.value, deployments)]
                  /\ UNCHANGED timers
    /\ UNCHANGED <<requestHistory, calls, now, deployments, selected>>

\* The metadata API accepts a GET and never answers it: the fetch is made
\* without timeout or abort signal, so its promise never settles.
MetadataSilent(k) ==
    /\ k \in 1..Len(fetches)
    /\ ~fetches[k].silent
    /\ fetches' = [fetches EXCEPT ![k].silent = TRUE]
    /\ UNCHANGED <<requestHistory, calls, now, cachedDeployments, deployments,
                   returned, runs, timers, selected>>

\* db.delete(deployments) of a cacheDeployments comes back: the table is
\* empty and the first batch is sent, or, with nothing to insert, the sync
\* schedules its next run; a delete that failed is thrown to the sync's
\* catch block.
DeleteResponse(j, ok) ==
    /\ j \in 1..Len(runs)
    /\ runs[j].pc = "delete"
    /\ IF ~ok
       THEN /\ runs' = RemoveAt(runs, j)
            /\ timers' = Schedule(timers, FALSE, now)
            /\ UNCHANGED deployments
       ELSE /\ deployments' = {}
            /\ IF Len(runs[j].data) = 0
               THEN /\ runs' = RemoveAt(runs, j)
                    /\ timers' = Schedule(timers, TRUE, now)
               ELSE /\ runs' = [runs EXCEPT ![j].pc = "insert"]
                    /\ UNCHANGED timers
    /\ UNCHANGED <<requestHistory, calls, now, cachedDeployments, fetches,
                   returned, selected>>

\* The insert of one batch comes back: the rows are stored and the next
\* batch is sent, or, after the last one, the sync schedules its next run;
\* an insert that failed is thrown to the sync's catch block.
InsertResponse(j, ok) ==
    /\ j \in 1..Len(runs)
    /\ runs[j].pc = "insert"
    /\ IF ~ok
       THEN /\ runs' = RemoveAt(runs, j)
            /\ timers' = Schedule(timers, FALSE, now)
            /\ UNCHANGED deployments
       ELSE /\ deployments' = deployments \cup Batch(runs[j].data, runs[j].i)
            /\ IF runs[j].i + batchSize >= Len(runs[j].data)
               THEN /\ runs' = RemoveAt(runs, j)
                    /\ timers' = Schedule(timers, TRUE, now)
               ELSE /\ runs' = [runs EXCEPT ![j].i = @ + batchSize]
                    /\ UNCHANGED timers
    /\ UNCHANGED <<requestHistory, calls, now, cachedDeployments, fetches,
                   returned, selected>>

\* The cacheDeployments calls that have deleted or are about to, each with
\* the table's content at its call and the rows it is given.
Replacing ==
    {[previous |-> runs[j].previous, data |-> Range(runs[j].data)] :
        j \in {j \in 1..Len(runs) : runs[j].pc \in {"delete", "insert"}}}

\* getDeployments(): one select of all rows; replacing tells which
\* cacheDeployments calls it ran along with.
GetDeployments ==
    /\ selected' = [turn |-> 1 - selected.turn, rows |-> deployments,
                    replacing |-> Replacing]
    /\ UNCHANGED <<requestHistory, calls, now, cachedDeployments, deployments,
                   fetches, returned, runs, timers>>

\* A minute passes.
Minute ==
    /\ now < MaxMinutes
    /\ now' = now + 1
    /\ UNCHANGED <<requestHistory, calls, syncVars>>

\* The table under replacement: syncs one after the other, every outcome of
\* the API and the database, and getDeployments at any moment.
NextStore ==
    \/ \E k \in 1..Len(timers) : TimerFires(k)
    \/ \E k \in 1..Len(fetches), o \in MetadataOutcomes : MetadataResponse(k, o)
    \/ \E j \in 1..Len(runs), ok \in BOOLEAN : DeleteResponse(j, ok)
    \/ \E j \in 1..Len(runs), ok \in BOOLEAN : InsertResponse(j, ok)
    \/ GetDeployments
    \/ Minute

SpecStore == InitSync /\ [][NextStore]_vars

\* The metadata cache with two callers: the sync and fetchDeploymentById.
NextCache ==
    \/ \E k \in 1..Len(timers) : TimerFires(k)
    \/ FetchDeploymentById
    \/ \E k \in 1..Len(fetches), o \in MetadataOutcomes : MetadataResponse(k, o)
    \/ \E j \in 1..Len(runs), ok \in BOOLEAN : DeleteResponse(j, ok)
    \/ \E j \in 1..Len(runs), ok \in BOOLEAN : InsertResponse(j, ok)
    \/ Minute

SpecCache == InitSync /\ [][NextCache]_vars

\* The periodic sync on its own, with an API that may stay silent.
NextSync ==
    \/ \E k \in 1..Len(timers) : TimerFires(k)
    \/ \E k \in 1..Len(fetches), o \in MetadataOutcomes : MetadataResponse(k, o)
    \/ \E k \in 1..Len(fetches) : MetadataSilent(k)
    \/ \E j \in 1..Len(runs), ok \in BOOLEAN : DeleteResponse(j, ok)
    \/ \E j \in 1..Len(runs), ok \in BOOLEAN : InsertResponse(j, ok)
    \/ Minute

\* The event loop runs every callback that is due and the clock goes on;
\* a reply that arrives is handled. Nothing makes a silent API answer.
SyncFairness ==
    /\ WF_vars(Minute)
    /\ WF_vars(\E k \in 1..Len(timers) : TimerFires(k))
    /\ WF_vars(\E k \in 1..Len(fetches), o \in MetadataOutcomes : MetadataResponse(k, o))
    /\ WF_vars(\E j \in 1..Len(runs), ok \in BOOLEAN : DeleteResponse(j, ok))
    /\ WF_vars(\E j \in 1..Len(runs), ok \in BOOLEAN : InsertResponse(j, ok))

SpecSync == InitSync /\ [][NextSync]_vars /\ SyncFairness

\* ------------------------------------------------------------------- C28
\* C28: cacheDeployments replaces the table atomically. A getDeployments
\* that runs along with a cacheDeployments returns the rows the table held
\* when that cacheDeployments was called or the rows it was given, and a
\* cacheDeployments whose delete or insert fails leaves the table with the
\* rows it held at the call.
C28_AtomicReplace ==
    /\ [](\A w \in (IF "replacing" \in DOMAIN selected THEN selected.replacing ELSE {}) :
            selected.rows \in {w.previous, w.data})
    /\ [][\A j \in 1..Len(runs) :
            (/\ runs[j].pc \in {"delete", "insert"}
             /\ Len(runs') < Len(runs)
             /\ timers'[Len(timers')].after = "failure")
            => deployments' = runs[j].previous]_vars

\* ------------------------------------------------------------------- C29
\* C29: the sync never stops and never doubles. At most one run is in flight
\* or scheduled; a run that ends leaves exactly one timer, due 5 minutes
\* later when the run succeeded and 1 minute later when it failed; every run
\* ends, and every timer due within the clock's range starts a run.
C29_SyncNeverStops ==
    /\ [](Len(runs) + Len(timers) <= 1)
    /\ [][Len(runs') < Len(runs) =>
            /\ Len(timers') = Len(timers) + 1
            /\ timers'[Len(timers')].due - now
                 = IF timers'[Len(timers')].after = "success"
                   THEN SyncInterval ELSE RetryInterval]_vars
    /\ (runs # <<>>) ~> (timers # <<>>)
    /\ \A t \in 1..MaxMinutes :
          (timers # <<>> /\ timers[1].due = t) ~> (runs # <<>>)
\* ------------------------------------------------------------------- C30
\* C30: fetchLayerZeroDeployments never throws. While the cache is less than
\* 5 minutes old no call goes out to the API and a call returns the cached
\* data; a call that returns without having gone out found the cache fresh;
\* a sync that starts on an expired or missing cache goes out; a call whose
\* fetch failed returns the cached data, however old, or an empty list when
\* there is no cache, and leaves the cache as it was.
C30_FetchDegrades ==
    /\ [](("thrown" \in DOMAIN returned) => ~returned.thrown)
    /\ [][/\ Fresh(cachedDeployments, now) => Len(fetches') <= Len(fetches)
          /\ (returned'.turn # returned.turn /\ ~returned'.outbound) =>
                /\ Fresh(cachedDeployments, now)
                /\ returned'.value = cachedDeployments.data
                /\ cachedDeployments' = cachedDeployments
          /\ (~Fresh(cachedDeployments, now) /\ Len(timers') < Len(timers)) =>
                Len(fetches') = Len(fetches) + 1
          /\ (returned'.turn # returned.turn /\ returned'.failed) =>
                /\ cachedDeployments' = cachedDeployments
                /\ returned'.value = IF cachedDeployments = NoCache THEN <<>>
                                     ELSE cachedDeployments.data]_vars

\* A call that went out after the cache had expired, failed, and returned
\* the deployments of the expired cache.
C30_Witness ==
    /\ "failed" \in DOMAIN returned
    /\ returned.failed
    /\ returned.outbound
    /\ cachedDeployments # NoCache
    /\ ~Fresh(cachedDeployments, now)
    /\ returned.value = cachedDeployments.data
    /\ Len(returned.value) > 0
====
